---- MODULE Spec2Model ----
(***************************************************************************)
(* The reply service of mstdn-ebooks (src/reply.py): ReplyBot.run consumes *)
(* the mention stream and hands every notification to                      *)
(* process_notification, which fetches the thread context with a bounded   *)
(* backoff, gates on the thread length and then either runs a pin/unpin    *)
(* command or posts a generated reply.                                     *)
(*                                                                         *)
(* Texts are sequences of one-character strings.  The calls made on the    *)
(* network client (and the sleeps and the diagnostic print) on behalf of   *)
(* the notification in hand are recorded, in order, in `calls`.            *)
(***************************************************************************)
EXTENDS Integers, Sequences, FiniteSets, TLC

(* ------------------------------ bounds -------------------------------- *)

\* longest thread ancestry the upstream returns; post ids are 1..MaxAncestors
MaxAncestors == 2
\* cfg['max_thread_length'] ranges over 0..MaxThreadLength
MaxThreadLength == 2
\* longest text the mention sanitization is applied to on its own
MaxText == 3

(* ------------------------- program constants -------------------------- *)

\* `if retry_count < 3`
MaxRetries == 3
\* `anyio.sleep(2**retry_count)`
BackoffBase == 2

(* ------------------------------ inputs -------------------------------- *)

\* Python's None where an id is expected (in_reply_to_id of a post that is
\* no reply; self.me before run() has set it)
None == 0
\* the id the upstream reports for the bot's own account
BotId == 1
\* account ids
Ids == {1, 2}
\* what the upstream may report as the accounts the bot follows (an account
\* does not follow itself)
FollowLists == SUBSET (Ids \ {BotId})
\* ids of the posts of a thread's ancestry
PostIds == 1..MaxAncestors
\* the id of the status that triggered the notification: not one of its ancestors
StatusId == MaxAncestors + 1

FailGlyph == "cross_mark"
OkGlyph == "check_mark"
\* the zero-width space U+200B
ZWSP == "u200b"

\* notification['status']['content'] as utils.extract_post_content returns it
Contents ==
    { <<"@", "b", " ", "p", "i", "n">>,
      <<"@", "b", " ", "U", "n", "p", "i", "n">>,
      <<"@", "b", " ", "P", "I", "N", " ", "x">>,
      <<"p", "i", "n">>,
      <<"@", "b", " ", "h", "i">>,
      <<"@", "p", "i", "n">> }

\* what utils.make_post generates
Toots == { <<"h", "i">>, <<"@", "a", " ", "h", "i">> }

\* the message of a BadRequest (exc.args[0])
ErrorMessages == { <<"X">> }

\* cfg['cw']: no content warning, or one
NoCW == <<>>
CWs == { NoCW, <<"c", "w">> }

Posts == [id : PostIds, account : [id : Ids]]

RECURSIVE SeqsUpTo(_, _)
SeqsUpTo(S, n) ==
    IF n = 0 THEN { <<>> }
    ELSE LET shorter == SeqsUpTo(S, n - 1)
         IN  shorter \cup { Append(s, x) : s \in shorter, x \in S }

\* context['ancestors']: posts with distinct ids, in thread order
Ancestries ==
    { a \in SeqsUpTo(Posts, MaxAncestors) :
        \A i, j \in 1..Len(a) : a[i].id = a[j].id => i = j }

Notifications ==
    [account : [id : Ids],
     status : [id : {StatusId}, content : Contents,
               in_reply_to_id : PostIds \cup {None}]]

NoNotification ==
    [account |-> [id |-> None],
     status |-> [id |-> None, content |-> <<>>, in_reply_to_id |-> None]]

NoContext == [fetched |-> FALSE, ancestors |-> <<>>]

Configs ==
    [max_thread_length : 0..MaxThreadLength,
     strip_paired_punctuation : BOOLEAN,
     cw : CWs]

(* ------------------------------ state --------------------------------- *)

VARIABLES
    cfg,            \* self.cfg
    me,             \* self.me
    follows,        \* self.follows
    pc,             \* where run() and its callees stand
    notification,   \* the notification in hand
    retry_count,    \* retry_count of the innermost process_notification frame
    depth,          \* process_notification frames below the innermost one
    context,        \* the thread context once fetched
    target,         \* target_post_id of process_command (None: unbound)
    exc,            \* args[0] of the BadRequest caught by process_command
    tasks,          \* the two tasks of process_command's task group
    calls,          \* calls made for the notification in hand, in order
    gate,           \* the thread gate applied to an input on its own
    san             \* the mention sanitization applied to a text on its own

vars == <<cfg, me, follows, pc, notification, retry_count, depth, context,
          target, exc, tasks, calls, gate, san>>

NoTasks == [react |-> "idle", reply |-> "idle"]
NoSan == [text |-> <<>>, step |-> 0, once |-> <<>>, twice |-> <<>>]
NoGate == [ancestors |-> <<>>, me |-> None, max |-> 0, applied |-> FALSE, out |-> FALSE]

Call(op, arg, txt, cw, res) ==
    [op |-> op, arg |-> arg, txt |-> txt, cw |-> cw, res |-> res]

(* ------------------------- pure functions ----------------------------- *)

IsSpace(c) == c \in {" ", "\n", "\t"}

LowerChar(c) ==
    CASE c = "P" -> "p"
      [] c = "I" -> "i"
      [] c = "N" -> "n"
      [] c = "U" -> "u"
      [] OTHER -> c

\* str.lower()
Lower(text) == [i \in 1..Len(text) |-> LowerChar(text[i])]

\* re.sub(r"^@\S+\s", r"", text): an "@" at the start, the longest run of
\* non-space characters after it, and the space character ending that run
StripInitialMention(text) ==
    IF Len(text) >= 2 /\ text[1] = "@" /\ ~IsSpace(text[2])
    THEN LET e == CHOOSE j \in 2..Len(text) :
                    /\ \A k \in 2..j : ~IsSpace(text[k])
                    /\ (j = Len(text) \/ IsSpace(text[j + 1]))
         IN  IF e < Len(text) THEN SubSeq(text, e + 2, Len(text)) ELSE text
    ELSE text

extract_toot(toot) == Lower(StripInitialMention(toot))

Commands == { <<"p", "i", "n">>, <<"u", "n", "p", "i", "n">> }

\* the running count of the loop of check_thread_length after the first i posts
OwnPosts(ancestors, own, i) ==
    Cardinality({ k \in 1..i : ancestors[k].account.id = own })

RECURSIVE ScanThread(_, _, _, _, _)
ScanThread(ancestors, own, max, i, posts) ==
    IF i > Len(ancestors) THEN FALSE
    ELSE LET p == IF ancestors[i].account.id = own THEN posts + 1 ELSE posts
         IN  IF p >= max THEN TRUE
             ELSE ScanThread(ancestors, own, max, i + 1, p)

check_thread_length(ancestors, own, max) == ScanThread(ancestors, own, max, 1, 0)

\* the loop of process_command without its test: the last ancestor wins
RECURSIVE FindTargetLastAncestor(_, _, _, _)
FindTargetLastAncestor(ancestors, in_reply_to_id, i, found) ==
    IF i > Len(ancestors) THEN found
    ELSE FindTargetLastAncestor(ancestors, in_reply_to_id, i + 1, ancestors[i].id)

\* the loop of process_command that finds the post the user is talking
\* about: the last ancestor whose id is in_reply_to_id, None when there is none
RECURSIVE FindTarget(_, _, _, _)
FindTarget(ancestors, in_reply_to_id, i, found) ==
    IF i > Len(ancestors) THEN found
    ELSE FindTarget(ancestors, in_reply_to_id, i + 1,
                    IF ancestors[i].id = in_reply_to_id THEN ancestors[i].id ELSE found)

\* the replacement limited to the first "@", as toot.replace("@", ..., 1) would do
RECURSIVE SanitizeFirstMention(_)
SanitizeFirstMention(toot) ==
    IF toot = <<>> THEN <<>>
    ELSE IF Head(toot) = "@"
         THEN <<"@", ZWSP>> \o Tail(toot)
         ELSE <<Head(toot)>> \o SanitizeFirstMention(Tail(toot))

\* toot.replace("@", "@\u200b")
RECURSIVE SanitizeMentions(_)
SanitizeMentions(toot) ==
    IF toot = <<>> THEN <<>>
    ELSE IF Head(toot) = "@"
         THEN <<"@", ZWSP>> \o SanitizeMentions(Tail(toot))
         ELSE <<Head(toot)>> \o SanitizeMentions(Tail(toot))

\* the words of a text that hold a sanitized mention, dropped with the space
\* after them
RECURSIVE DropMentionWords(_)
DropMentionWords(toot) ==
    IF toot = <<>> THEN <<>>
    ELSE LET n == Len(toot)
             e == CHOOSE j \in 0..n :
                    /\ \A k \in 1..j : ~IsSpace(toot[k])
                    /\ (j = n \/ IsSpace(toot[j + 1]))
             word == SubSeq(toot, 1, e)
             next == IF e < n THEN e + 2 ELSE n + 1
             rest == DropMentionWords(SubSeq(toot, next, n))
             sep == IF e < n THEN <<toot[e + 1]>> ELSE <<>>
         IN  IF \E k \in 1..e : word[k] = "@"
             THEN rest
             ELSE word \o sep \o rest

\* utils.remove_mentions(cfg, toot): by the configuration it leaves the text
\* alone or removes its mentions
remove_mentions(toot) == { toot, DropMentionWords(toot) }

\* the reply without its 'Error: ' prefix
ErrorTextBare(msg) == msg

\* 'Error: ' + exc.args[0]
ErrorText(msg) == <<"E", "r", "r", "o", "r", ":", " ">> \o msg

(* --------------------------- the retry policy ------------------------- *)

\* the retry test with `<=` where the code has `<`
RetryAllowedOnceMore(rc) == rc <= MaxRetries

\* `if retry_count < 3`
RetryAllowed(rc) == rc < MaxRetries

RECURSIVE Pow(_, _)
Pow(b, n) == IF n = 0 THEN 1 ELSE b * Pow(b, n - 1)

\* `2**retry_count`
Backoff(rc) == Pow(BackoffBase, rc)

\* the except branch without its `return`: the handler falls through to the gate
AfterBadResponseFallThrough(rc) == IF RetryAllowed(rc) THEN "sleep" ELSE "gate"

\* the except branch of process_notification
AfterBadResponse(rc) == IF RetryAllowed(rc) THEN "sleep" ELSE "return"

\* the gate's answer ignored
AfterGateIgnored(tooLong, content) ==
    IF content \in Commands THEN "command" ELSE "reply"

\* lines 43-50 of process_notification, once the context is there
AfterGate(tooLong, content) ==
    IF tooLong THEN "return"
    ELSE IF content \in Commands THEN "command" ELSE "reply"

(* ------------------------------ Init ---------------------------------- *)

Init ==
    /\ cfg \in Configs
    /\ me = None
    /\ follows = {}
    /\ pc = "start"
    /\ notification = NoNotification
    /\ retry_count = 0
    /\ depth = 0
    /\ context = NoContext
    /\ target = None
    /\ exc = <<>>
    /\ tasks = NoTasks
    /\ calls = <<>>
    /\ gate = NoGate
    /\ san = NoSan

(* ------------------------------ run() --------------------------------- *)

\* a lookup of run() tried again at the place `at` after its error
AfterLookupErrorRetry(at) == at

\* run() has no try around me() and following(): the error leaves run(), amain()
\* and anyio.run()
AfterLookupError(at) == "crashed"

\* self.me = (await self.pleroma.me())['id']; an error propagates
GetMe ==
    /\ pc = "start"
    /\ \/ /\ me' = BotId
          /\ calls' = Append(calls, Call("me", None, <<>>, NoCW, "ok"))
          /\ pc' = "following"
       \/ /\ me' = me
          /\ calls' = Append(calls, Call("me", None, <<>>, NoCW, "error"))
          /\ pc' = AfterLookupError("start")
    /\ UNCHANGED <<cfg, follows, notification, retry_count, depth, context,
                   target, exc, tasks, gate, san>>

\* self.follows = frozenset(... self.pleroma.following(self.me)); an error propagates
GetFollowing ==
    /\ pc = "following"
    /\ \/ /\ \E f \in FollowLists : follows' = f
          /\ calls' = Append(calls, Call("following", me, <<>>, NoCW, "ok"))
          /\ pc' = "stream"
       \/ /\ follows' = follows
          /\ calls' = Append(calls, Call("following", me, <<>>, NoCW, "error"))
          /\ pc' = AfterLookupError("following")
    /\ UNCHANGED <<cfg, me, notification, retry_count, depth, context,
                   target, exc, tasks, gate, san>>

\* the loop of run() reading the follow list again with every notification
StreamNextRefollowing ==
    /\ pc = "stream"
    /\ \E n \in Notifications : notification' = n
    /\ \E f \in FollowLists : follows' = f
    /\ retry_count' = 0
    /\ depth' = 0
    /\ context' = NoContext
    /\ target' = None
    /\ exc' = <<>>
    /\ tasks' = NoTasks
    /\ calls' = <<>>
    /\ pc' = "fetch"
    /\ UNCHANGED <<cfg, me, gate, san>>

\* async for notification in self.pleroma.stream_mentions():
\*     await self.process_notification(notification)
StreamNext ==
    /\ pc = "stream"
    /\ \E n \in Notifications : notification' = n
    /\ retry_count' = 0
    /\ depth' = 0
    /\ context' = NoContext
    /\ target' = None
    /\ exc' = <<>>
    /\ tasks' = NoTasks
    /\ calls' = <<>>
    /\ pc' = "fetch"
    /\ UNCHANGED <<cfg, me, follows, gate, san>>

(* ------------------------ process_notification ------------------------ *)

\* retry_count = retry_count + 1; context = await self.pleroma.status_context(post_id)
FetchContext ==
    /\ pc = "fetch"
    /\ retry_count' = retry_count + 1
    /\ \/ \E a \in Ancestries :
            /\ context' = [fetched |-> TRUE, ancestors |-> a]
            /\ calls' = Append(calls, Call("status_context", notification.status.id, <<>>, NoCW, "ok"))
            /\ pc' = "gate"
       \/ \* pleroma.BadResponse: back off and retry, or give up with a print
          /\ context' = context
          /\ pc' = AfterBadResponse(retry_count')
          /\ calls' =
               LET c == Append(calls, Call("status_context", notification.status.id, <<>>, NoCW, "BadResponse"))
               IN  IF pc' = "sleep" THEN c
                   ELSE Append(c, Call("print", retry_count', <<>>, NoCW, "ok"))
       \/ \* any other exception is not caught
          /\ context' = context
          /\ calls' = Append(calls, Call("status_context", notification.status.id, <<>>, NoCW, "error"))
          /\ pc' = "crashed"
    /\ UNCHANGED <<cfg, me, follows, notification, depth, target, exc, tasks, gate, san>>

\* await anyio.sleep(2**retry_count); await self.process_notification(notification, retry_count)
Sleep ==
    /\ pc = "sleep"
    /\ calls' = Append(calls, Call("sleep", Backoff(retry_count), <<>>, NoCW, "ok"))
    /\ depth' = depth + 1
    /\ pc' = "fetch"
    /\ UNCHANGED <<cfg, me, follows, notification, retry_count, context,
                   target, exc, tasks, gate, san>>

\* if self.check_thread_length(context): return; content = self.extract_toot(...)
Gate ==
    /\ pc = "gate"
    /\ pc' = AfterGate(check_thread_length(context.ancestors, me, cfg.max_thread_length),
                       extract_toot(notification.status.content))
    /\ UNCHANGED <<cfg, me, follows, notification, retry_count, depth, context,
                   target, exc, tasks, calls, gate, san>>

\* a frame that retried going on to the thread gate once its retry has returned,
\* as it would without the `return` of line 40
ReturnFallsThrough ==
    /\ pc = "return"
    /\ IF depth > 0
       THEN depth' = depth - 1 /\ pc' = "gate"
       ELSE depth' = depth /\ pc' = "stream"
    /\ UNCHANGED <<cfg, me, follows, notification, retry_count, context,
                   target, exc, tasks, calls, gate, san>>

\* a frame of process_notification returns: to the `return` of the frame that
\* retried, or to the loop of run()
Return ==
    /\ pc = "return"
    /\ IF depth > 0
       THEN depth' = depth - 1 /\ pc' = "return"
       ELSE depth' = depth /\ pc' = "stream"
    /\ UNCHANGED <<cfg, me, follows, notification, retry_count, context,
                   target, exc, tasks, calls, gate, san>>

(* --------------------------- process_command -------------------------- *)

\* the authorization test with the follow list ignored
AuthorizedAnyone(n, f) == TRUE

\* `notification['account']['id'] not in self.follows`, negated
Authorized(n, f) == n.account.id \in f

\* this user is unauthorized: await self.pleroma.react(post_id, FailGlyph); return
Unauthorized ==
    /\ pc = "command"
    /\ ~Authorized(notification, follows)
    /\ \E res \in {"ok", "error"} :
        /\ calls' = Append(calls, Call("react", notification.status.id, <<FailGlyph>>, NoCW, res))
        /\ pc' = IF res = "ok" THEN "return" ELSE "crashed"
    /\ UNCHANGED <<cfg, me, follows, notification, retry_count, depth, context,
                   target, exc, tasks, gate, san>>

\* process_command going on to the call of line 75 whatever the loop found
ResolveTargetProceeds ==
    /\ pc = "command"
    /\ Authorized(notification, follows)
    /\ target' = FindTarget(context.ancestors, notification.status.in_reply_to_id, 1, None)
    /\ pc' = "pin"
    /\ UNCHANGED <<cfg, me, follows, notification, retry_count, depth, context,
                   exc, tasks, calls, gate, san>>

\* find the post the user is talking about; reading target_post_id while it
\* is unbound raises UnboundLocalError before any call is made
ResolveTarget ==
    /\ pc = "command"
    /\ Authorized(notification, follows)
    /\ target' = FindTarget(context.ancestors, notification.status.in_reply_to_id, 1, None)
    /\ pc' = IF target' = None THEN "crashed" ELSE "pin"
    /\ UNCHANGED <<cfg, me, follows, notification, retry_count, depth, context,
                   exc, tasks, calls, gate, san>>

\* the conditional of line 75 with its branches swapped
CommandOpSwapped(command) == IF command = <<"p", "i", "n">> THEN "unpin" ELSE "pin"

\* the operation a command names
CommandOp(command) == IF command = <<"p", "i", "n">> THEN "pin" ELSE "unpin"

\* await (self.pleroma.pin if command == 'pin' else self.pleroma.unpin)(target_post_id)
PinUnpin ==
    /\ pc = "pin"
    /\ LET op == CommandOp(extract_toot(notification.status.content))
       IN  \/ /\ calls' = Append(calls, Call(op, target, <<>>, NoCW, "ok"))
              /\ pc' = "react_ok"
              /\ UNCHANGED <<exc, tasks>>
           \/ \* pleroma.BadRequest: the task group starts both acknowledgements
              \E msg \in ErrorMessages :
                /\ calls' = Append(calls, Call(op, target, <<>>, NoCW, "BadRequest"))
                /\ exc' = msg
                /\ tasks' = [react |-> "scheduled", reply |-> "scheduled"]
                /\ pc' = "ack"
           \/ \* any other exception is not caught
              /\ calls' = Append(calls, Call(op, target, <<>>, NoCW, "error"))
              /\ pc' = "crashed"
              /\ UNCHANGED <<exc, tasks>>
    /\ UNCHANGED <<cfg, me, follows, notification, retry_count, depth, context,
                   target, gate, san>>

\* else: await self.pleroma.react(post_id, OkGlyph)
ReactOk ==
    /\ pc = "react_ok"
    /\ \E res \in {"ok", "error"} :
        /\ calls' = Append(calls, Call("react", notification.status.id, <<OkGlyph>>, NoCW, res))
        /\ pc' = IF res = "ok" THEN "return" ELSE "crashed"
    /\ UNCHANGED <<cfg, me, follows, notification, retry_count, depth, context,
                   target, exc, tasks, gate, san>>

(* ------------- the task group of the rejection path -------------------- *)

TaskNames == {"react", "reply"}

\* the call a task of the group makes
TaskCall(t) ==
    IF t = "react"
    THEN Call("react", notification.status.id, <<FailGlyph>>, NoCW, "pending")
    ELSE Call("reply", notification.status.id, ErrorText(exc), NoCW, "pending")

\* the outcome of the call in flight of task t
SetResult(log, t, res) ==
    [i \in 1..Len(log) |->
        IF log[i].op = t /\ log[i].res = "pending"
        THEN [log[i] EXCEPT !.res = res] ELSE log[i]]

\* what a task group does to the sibling of a task that raised: a task that
\* has finished keeps its result, any other is cancelled
SiblingAfterFailure(state) ==
    IF state \in {"scheduled", "running"} THEN "cancelled" ELSE state

\* tg.start_soon(...): a scheduled task starts and issues its call; anyio
\* does not say which of the two starts first
TaskStart(t) ==
    /\ pc = "ack"
    /\ tasks[t] = "scheduled"
    /\ tasks' = [tasks EXCEPT ![t] = "running"]
    /\ calls' = Append(calls, TaskCall(t))
    /\ UNCHANGED <<cfg, me, follows, pc, notification, retry_count, depth,
                   context, target, exc, gate, san>>

\* the call of a task returns
TaskDone(t) ==
    /\ pc = "ack"
    /\ tasks[t] = "running"
    /\ tasks' = [tasks EXCEPT ![t] = "done"]
    /\ calls' = SetResult(calls, t, "ok")
    /\ UNCHANGED <<cfg, me, follows, pc, notification, retry_count, depth,
                   context, target, exc, gate, san>>

\* the call of a task raises: the group's cancel scope is cancelled
TaskFail(t) ==
    /\ pc = "ack"
    /\ tasks[t] = "running"
    /\ tasks' = [u \in TaskNames |->
                    IF u = t THEN "failed" ELSE SiblingAfterFailure(tasks[u])]
    /\ calls' = LET failed == SetResult(calls, t, "error")
                    other == CHOOSE u \in TaskNames : u # t
                IN  IF tasks'[other] = "cancelled"
                    THEN SetResult(failed, other, "cancelled") ELSE failed
    /\ UNCHANGED <<cfg, me, follows, pc, notification, retry_count, depth,
                   context, target, exc, gate, san>>

\* the acknowledgements detached instead of joined: the handler goes on while
\* they run
JoinTasksDetached ==
    /\ pc = "ack"
    /\ pc' = IF \E t \in TaskNames : tasks[t] = "failed" THEN "crashed" ELSE "return"
    /\ UNCHANGED <<cfg, me, follows, notification, retry_count, depth, context,
                   target, exc, tasks, calls, gate, san>>

\* the end of `async with anyio.create_task_group()`: every task is over; the
\* exception of a failed task propagates
JoinTasks ==
    /\ pc = "ack"
    /\ \A t \in TaskNames : tasks[t] \in {"done", "failed", "cancelled"}
    /\ pc' = IF \E t \in TaskNames : tasks[t] = "failed" THEN "crashed" ELSE "return"
    /\ UNCHANGED <<cfg, me, follows, notification, retry_count, depth, context,
                   target, exc, tasks, calls, gate, san>>

(* -------------------------------- reply ------------------------------- *)

\* toot = await utils.make_post(self.cfg); PAIRED_PUNCTUATION is a name this
\* file never defines, so the strip raises NameError; then the two mention
\* passes and await self.pleroma.reply(notification['status'], toot, cw=...)
Reply ==
    /\ pc = "reply"
    /\ \/ \* make_post raises
          /\ calls' = Append(calls, Call("make_post", None, <<>>, NoCW, "error"))
          /\ pc' = "crashed"
       \/ \E toot \in Toots :
            LET made == Append(calls, Call("make_post", None, toot, NoCW, "ok"))
            IN  IF cfg.strip_paired_punctuation
                THEN /\ calls' = made
                     /\ pc' = "crashed"
                ELSE \E sent \in remove_mentions(SanitizeMentions(toot)) :
                     \E res \in {"ok", "error"} :
                        /\ calls' = Append(made, Call("reply", notification.status.id, sent, cfg.cw, res))
                        /\ pc' = IF res = "ok" THEN "return" ELSE "crashed"
    /\ UNCHANGED <<cfg, me, follows, notification, retry_count, depth, context,
                   target, exc, tasks, gate, san>>

Next ==
    \/ GetMe
    \/ GetFollowing
    \/ StreamNext
    \/ FetchContext
    \/ Sleep
    \/ Gate
    \/ Return
    \/ Unauthorized
    \/ ResolveTarget
    \/ PinUnpin
    \/ ReactOk
    \/ \E t \in TaskNames : TaskStart(t)
    \/ \E t \in TaskNames : TaskDone(t)
    \/ \E t \in TaskNames : TaskFail(t)
    \/ JoinTasks
    \/ Reply

Spec == Init /\ [][Next]_vars

(* ------------------------------ __main__ ------------------------------- *)

\* the places where the program is suspended in an await
Suspended == pc \in {"start", "following", "stream", "fetch", "sleep", "pin",
                     "react_ok", "ack", "reply"}

\* with contextlib.suppress(KeyboardInterrupt): anyio.run(amain): the interrupt
\* ends the pending await, unwinds run() and is swallowed; the task group is
\* cancelled on the way out; nothing shields what is left of the handler
Interrupt ==
    /\ Suspended
    /\ pc' = "interrupted"
    /\ tasks' = [t \in TaskNames |->
                   IF tasks[t] \in {"scheduled", "running"} THEN "cancelled" ELSE tasks[t]]
    /\ calls' = [i \in 1..Len(calls) |->
                   IF calls[i].res = "pending"
                   THEN [calls[i] EXCEPT !.res = "cancelled"] ELSE calls[i]]
    /\ UNCHANGED <<cfg, me, follows, notification, retry_count, depth, context,
                   target, exc, gate, san>>

NextInterrupt == Next \/ Interrupt

SpecInterrupt == Init /\ [][NextInterrupt]_vars

(* ------------------- the thread gate on its own ----------------------- *)

\* thread ancestries for the gate alone: the ids of the posts play no part
GateThreads == SeqsUpTo(Posts, MaxAncestors + 1)

GateInputs ==
    [ancestors : GateThreads, me : Ids, max : (0 - 1)..(MaxThreadLength + 1),
     applied : {FALSE}, out : {FALSE}]

GateInit ==
    /\ cfg = [max_thread_length |-> 0, strip_paired_punctuation |-> FALSE, cw |-> NoCW]
    /\ me = None
    /\ follows = {}
    /\ pc = "start"
    /\ notification = NoNotification
    /\ retry_count = 0
    /\ depth = 0
    /\ context = NoContext
    /\ target = None
    /\ exc = <<>>
    /\ tasks = NoTasks
    /\ calls = <<>>
    /\ gate \in GateInputs
    /\ san = NoSan

\* self.check_thread_length(context) with self.me and cfg['max_thread_length'] given
GateApply ==
    /\ ~gate.applied
    /\ gate' = [gate EXCEPT !.applied = TRUE,
                            !.out = check_thread_length(gate.ancestors, gate.me, gate.max)]
    /\ UNCHANGED <<cfg, me, follows, pc, notification, retry_count, depth,
                   context, target, exc, tasks, calls, san>>

GateSpec == GateInit /\ [][GateApply]_vars

(* ---------------- the mention sanitization on its own ----------------- *)

\* texts over a mention sign, a handle character, a space and the separator
SanTexts == SeqsUpTo({"@", "a", " ", ZWSP}, MaxText)

SanInit ==
    /\ cfg = [max_thread_length |-> 0, strip_paired_punctuation |-> FALSE, cw |-> NoCW]
    /\ me = None
    /\ follows = {}
    /\ pc = "start"
    /\ notification = NoNotification
    /\ retry_count = 0
    /\ depth = 0
    /\ context = NoContext
    /\ target = None
    /\ exc = <<>>
    /\ tasks = NoTasks
    /\ calls = <<>>
    /\ gate = NoGate
    /\ \E t \in SanTexts : san = [NoSan EXCEPT !.text = t]

\* toot = toot.replace("@", "@\u200b"), applied to the text
SanitizeOnce ==
    /\ san.step = 0
    /\ san' = [san EXCEPT !.step = 1, !.once = SanitizeMentions(san.text)]
    /\ UNCHANGED <<cfg, me, follows, pc, notification, retry_count, depth,
                   context, target, exc, tasks, calls, gate>>

\* the same replacement applied to its own result
SanitizeAgain ==
    /\ san.step = 1
    /\ san' = [san EXCEPT !.step = 2, !.twice = SanitizeMentions(san.once)]
    /\ UNCHANGED <<cfg, me, follows, pc, notification, retry_count, depth,
                   context, target, exc, tasks, calls, gate>>

SanNext == SanitizeOnce \/ SanitizeAgain

SanSpec == SanInit /\ [][SanNext]_vars

(* ------------------------------ properties ---------------------------- *)

IsPrefix(s, t) == Len(s) <= Len(t) /\ SubSeq(t, 1, Len(s)) = s

\* the calls with a user-visible effect made for the notification in hand
ActionCalls == SelectSeq(calls, LAMBDA c : c.op \in {"react", "reply", "pin", "unpin"})

\* the context fetches and the sleeps made for the notification in hand
FetchCalls == SelectSeq(calls, LAMBDA c : c.op \in {"status_context", "sleep"})

Fetches == SelectSeq(calls, LAMBDA c : c.op = "status_context")

Shape(log) == [i \in 1..Len(log) |-> <<log[i].op, log[i].arg>>]

HasNotification == notification # NoNotification

\* the retry budget of the notification in hand is exhausted: the diagnostic
\* of line 39 has been printed
Exhausted == \E i \in 1..Len(calls) : calls[i].op = "print"

\* process_notification is over for the notification in hand
Over == HasNotification /\ pc \in {"return", "stream", "crashed"}

\* it returned to the loop of run()
Handled == HasNotification /\ pc = "stream"

IsCommand == extract_toot(notification.status.content) \in Commands

TooLong == check_thread_length(context.ancestors, me, cfg.max_thread_length)

Resolvable ==
    \E i \in 1..Len(context.ancestors) :
        context.ancestors[i].id = notification.status.in_reply_to_id

\* three fetches with a sleep of 2 and a sleep of 4 between them
FullSchedule ==
    << <<"status_context", StatusId>>, <<"sleep", 2>>,
       <<"status_context", StatusId>>, <<"sleep", 4>>,
       <<"status_context", StatusId>> >>

\* C1: for one notification the fetches and sleeps are always a prefix of
\* fetch, sleep 2, fetch, sleep 4, fetch; when every fetch fails transiently
\* the handling ends only after exactly 3 fetches and the sleeps 2 and 4, with
\* the notification abandoned; when the k-th fetch is the first to succeed
\* there are exactly k fetches and k-1 sleeps, and none is made afterwards.
C1_RetryBudget ==
    HasNotification =>
        /\ IsPrefix(Shape(FetchCalls), FullSchedule)
        /\ Exhausted =>
             /\ Shape(FetchCalls) = FullSchedule
             /\ \A i \in 1..Len(Fetches) : Fetches[i].res = "BadResponse"
             /\ ~context.fetched
        /\ (pc \in {"return", "stream"} /\ ~context.fetched) => Exhausted
        /\ context.fetched =>
             LET k == Len(Fetches)
             IN  /\ k \in 1..3
                 /\ Len(FetchCalls) = 2 * k - 1
                 /\ Fetches[k].res = "ok"
                 /\ \A i \in 1..(k - 1) : Fetches[i].res = "BadResponse"

\* C1, its case: three transient failures in a row, the notification abandoned
C1_Witness ==
    /\ Exhausted
    /\ pc = "return"
    /\ Len(Fetches) = 3
    /\ Len(FetchCalls) = 5

\* C2: a failure raised while handling a notification never ends the
\* dispatcher loop.
C2_DispatcherSurvives == HasNotification => pc # "crashed"

\* C3: a command of an account that is not followed, once the context is
\* fetched and the thread gate passed, makes exactly one call with an effect:
\* the failure-glyph reaction on the triggering post; no pin, unpin or reply.
C3_UnauthorizedCommand ==
    (HasNotification /\ context.fetched /\ IsCommand /\ ~TooLong
        /\ notification.account.id \notin follows) =>
        LET rejection == <<[op |-> "react", arg |-> notification.status.id,
                            txt |-> <<FailGlyph>>]>>
            made == [i \in 1..Len(ActionCalls) |->
                        [op |-> ActionCalls[i].op, arg |-> ActionCalls[i].arg,
                         txt |-> ActionCalls[i].txt]]
        IN  /\ IsPrefix(made, rejection)
            /\ Over => made = rejection

\* C3, its case: an "unpin" of an account that is not followed was handled
C3_Witness ==
    /\ Handled
    /\ context.fetched /\ ~TooLong
    /\ extract_toot(notification.status.content) = <<"u", "n", "p", "i", "n">>
    /\ notification.account.id \notin follows
    /\ Len(ActionCalls) = 1

\* C4 as stated: the gate returns true iff the running count of the bot's own
\* ancestors, which is 0 before the scan, reaches maxLength before the scan ends.
C4_AsStated ==
    gate.applied =>
        (gate.out <=>
            \E i \in 0..Len(gate.ancestors) :
                OwnPosts(gate.ancestors, gate.me, i) >= gate.max)

\* C4, what the code computes: true iff the running count of the bot's own
\* ancestors is at least maxLength after one of the ancestors has been
\* scanned; for the empty ancestry false, whatever maxLength is.
C4_ThreadGate ==
    gate.applied =>
        (gate.out <=>
            \E i \in 1..Len(gate.ancestors) :
                OwnPosts(gate.ancestors, gate.me, i) >= gate.max)

\* C5: when the thread gate returns true for the fetched context, no react,
\* reply, pin or unpin call is made for the notification, and its handling
\* does not fail.
C5_GateDropsSilently ==
    (HasNotification /\ context.fetched /\ TooLong) =>
        /\ ActionCalls = <<>>
        /\ pc \in {"gate", "return", "stream"}

\* C5, its case: a command of a followed account in a thread that is too long
\* was handled
C5_Witness ==
    /\ Handled
    /\ context.fetched /\ TooLong
    /\ IsCommand
    /\ notification.account.id \in follows
    /\ Resolvable

\* C6: an authorized command with a resolvable target calls first the
\* operation it names, on the ancestor it replies to; when that call succeeds
\* exactly one more call follows, the success-glyph reaction on the
\* triggering post, and nothing else: no second pin/unpin and no reply.
C6_CommandSuccess ==
    (HasNotification /\ context.fetched /\ IsCommand /\ ~TooLong
        /\ notification.account.id \in follows /\ Resolvable) =>
        LET A == ActionCalls
            named == IF extract_toot(notification.status.content) = <<"p", "i", "n">>
                     THEN "pin" ELSE "unpin"
        IN  /\ Len(A) >= 1 =>
                /\ A[1].op = named
                /\ A[1].arg = notification.status.in_reply_to_id
            /\ (Len(A) >= 1 /\ A[1].res = "ok") =>
                /\ Len(A) <= 2
                /\ Len(A) = 2 =>
                     /\ A[2].op = "react"
                     /\ A[2].arg = notification.status.id
                     /\ A[2].txt = <<OkGlyph>>
                /\ Over => Len(A) = 2
            /\ Over => Len(A) >= 1

\* C6, its case: an authorized "unpin" succeeded and was acknowledged
C6_Witness ==
    /\ Handled
    /\ Len(ActionCalls) = 2
    /\ ActionCalls[1].op = "unpin"
    /\ ActionCalls[1].res = "ok"
    /\ ActionCalls[2].res = "ok"

\* the pin/unpin call of the notification in hand was rejected with a BadRequest
Rejected ==
    /\ Len(ActionCalls) >= 1
    /\ ActionCalls[1].op \in {"pin", "unpin"}
    /\ ActionCalls[1].res = "BadRequest"

\* C7: after a pin/unpin rejected with RequestRejected(X) both
\* acknowledgements are scheduled together; the only calls made are the
\* failure-glyph reaction on the triggering post and the reply to the
\* triggering status with the text "Error: X", each at most once and in
\* either order; no success-glyph reaction is made; when the handling returns,
\* both were made and both completed.
C7_CommandRejection ==
    (HasNotification /\ Rejected) =>
        LET rest == Tail(ActionCalls)
            IsFailReaction(c) ==
                /\ c.op = "react"
                /\ c.arg = notification.status.id
                /\ c.txt = <<FailGlyph>>
            IsErrorReply(c) ==
                /\ c.op = "reply"
                /\ c.arg = notification.status.id
                /\ c.txt = <<"E", "r", "r", "o", "r", ":", " ">> \o exc
                /\ c.cw = NoCW
        IN  /\ \A t \in TaskNames : tasks[t] # "idle"
            /\ Len(rest) <= 2
            /\ \A i \in 1..Len(rest) : IsFailReaction(rest[i]) \/ IsErrorReply(rest[i])
            /\ Len(rest) = 2 => rest[1].op # rest[2].op
            /\ pc \in {"return", "stream"} =>
                 /\ Len(rest) = 2
                 /\ \A i \in 1..2 : rest[i].res = "ok"

\* C7, its case: the reaction was issued first and the reply completed first
C7_Witness ==
    /\ HasNotification /\ Rejected
    /\ Len(ActionCalls) = 3
    /\ ActionCalls[2].op = "react"
    /\ tasks.react = "running"
    /\ tasks.reply = "done"

\* C8: on the rejection path a failure of one acknowledgement does not cancel
\* the other: no acknowledgement is ever cancelled.
C8_AcksIndependent ==
    \A t \in TaskNames : tasks[t] = "failed" =>
        \A u \in TaskNames \ {t} : tasks[u] # "cancelled"

\* C9: once the retry budget of a notification is exhausted no reply,
\* reaction, pin or unpin call is made for it, its context stays unfetched,
\* the handler returns without an error, and back in the loop of run() the
\* dispatcher can take the next notification.
C9_ExhaustedAborts ==
    (HasNotification /\ Exhausted) =>
        /\ ActionCalls = <<>>
        /\ ~context.fetched
        /\ pc \in {"return", "stream"}
        /\ pc = "stream" => ENABLED StreamNext

\* C9, its case: the three frames have returned and the loop waits for the
\* next notification
C9_Witness ==
    /\ Exhausted
    /\ pc = "stream"
    /\ depth = 0
    /\ retry_count = MaxRetries

\* C10: a context fetch that fails with another error than the transient one
\* ends the handling of that notification only: the handler returns to the
\* loop as after an exhausted retry budget.
C10_OtherErrorAborts ==
    (HasNotification
        /\ \E i \in 1..Len(calls) :
              calls[i].op = "status_context" /\ calls[i].res = "error") =>
        pc \in {"return", "stream"}

\* the number of "@" in a text
Mentions(text) == Cardinality({ i \in 1..Len(text) : text[i] = "@" })

\* C11 as stated: applying the sanitization twice yields the same text as
\* applying it once.
C11_Idempotent == san.step = 2 => san.twice = san.once

\* C11 amended: one application puts the separator right after every "@" (no
\* "@" is followed by a handle character) and lengthens the text by one
\* character per "@"; a second application yields the same text iff the text
\* holds no "@", and otherwise puts one more separator after every "@".
C11_Sanitization ==
    /\ san.step >= 1 =>
        /\ Len(san.once) = Len(san.text) + Mentions(san.text)
        /\ Mentions(san.once) = Mentions(san.text)
        /\ \A i \in 1..Len(san.once) :
              san.once[i] = "@" => (i < Len(san.once) /\ san.once[i + 1] = ZWSP)
    /\ san.step = 2 =>
        /\ (san.twice = san.once <=> Mentions(san.text) = 0)
        /\ Len(san.twice) = Len(san.once) + Mentions(san.text)
        /\ \A i \in 1..Len(san.twice) :
              san.twice[i] = "@" =>
                 (i + 1 < Len(san.twice) /\ san.twice[i + 1] = ZWSP /\ san.twice[i + 2] = ZWSP)

\* C11, its case: "@a" sanitized twice holds two separators, once only one
C11_Witness ==
    /\ san.step = 2
    /\ san.text = <<"@", "a">>
    /\ san.once = <<"@", ZWSP, "a">>
    /\ san.twice = <<"@", ZWSP, ZWSP, "a">>

\* utils.make_post returned a toot for the notification in hand
PostMade == \E i \in 1..Len(calls) : calls[i].op = "make_post" /\ calls[i].res = "ok"

\* C12: for a notification that passed the thread gate the command path is
\* taken iff the normalized text is exactly "pin" or "unpin"; any other text
\* takes the reply path, which, once the reply text is generated, makes
\* exactly one reply call to the triggering status and no react, pin or unpin
\* call.
C12_Dispatch ==
    (HasNotification /\ context.fetched /\ ~TooLong) =>
        /\ IsCommand =>
            /\ pc \notin {"reply"}
            /\ \A i \in 1..Len(calls) : calls[i].op # "make_post"
        /\ ~IsCommand =>
            /\ pc \notin {"command", "pin", "react_ok", "ack"}
            /\ \A i \in 1..Len(ActionCalls) : ActionCalls[i].op = "reply"
            /\ Len(ActionCalls) <= 1
            /\ (PostMade /\ Over) =>
                 /\ Len(ActionCalls) = 1
                 /\ ActionCalls[1].arg = notification.status.id

\* C13: once run() has set them, self.me and self.follows never change,
\* whatever notifications are processed (self.me is set by the first lookup
\* and kept by the second); every pin or unpin call made is for a
\* notification whose sender is in that follow list.
C13_SessionFixed ==
    [][/\ pc = "following" => me' = me
       /\ pc \notin {"start", "following"} => (me' = me /\ follows' = follows)
       /\ \A i \in 1..Len(calls') :
             calls'[i].op \in {"pin", "unpin"} => notification'.account.id \in follows'
      ]_vars

\* C13, its case: a pin was made for a followed sender, with the session as
\* the startup set it
C13_Witness ==
    /\ Handled
    /\ me = BotId
    /\ follows = {notification.account.id}
    /\ \E i \in 1..Len(calls) : calls[i].op = "pin" /\ calls[i].res = "ok"

\* C14: notifications are handled one at a time: the first context fetch of
\* a notification starts only from the loop of run(), when the handling of the
\* notification before it is over: its fetch phase has ended (context fetched
\* or budget exhausted), every frame of its retries has returned, no call is
\* in flight and neither acknowledgement is scheduled or running; a retry
\* fetches for the notification in hand, after its sleep.
C14_OneAtATime ==
    [][/\ (pc' = "fetch" /\ retry_count' = 0) =>
            /\ pc = "stream"
            /\ depth = 0
            /\ \A t \in TaskNames : tasks[t] \notin {"scheduled", "running"}
            /\ \A i \in 1..Len(calls) : calls[i].res # "pending"
            /\ HasNotification => (context.fetched \/ Exhausted)
       /\ (pc' = "fetch" /\ retry_count' > 0) =>
            /\ pc = "sleep"
            /\ notification' = notification
       /\ notification' # notification => pc = "stream"
      ]_vars

\* C14, its case: a notification handled with one retry and both
\* acknowledgements of the rejection path, the loop ready for the next one
C14_Witness ==
    /\ Handled
    /\ Len(FetchCalls) = 3
    /\ tasks = [react |-> "done", reply |-> "done"]
    /\ ENABLED StreamNext

\* the lookups of run() logged so far
StartupCalls == SelectSeq(calls, LAMBDA c : c.op \in {"me", "following"})

\* C15: startup fails fatally without retry: until the first notification
\* is taken the only calls are me() and then following(), each at most once;
\* when either has raised, it was the last call, run() is over with the error,
\* no notification has been taken and the stream cannot be read.
C15_StartupFatal ==
    /\ ~HasNotification =>
          /\ calls = StartupCalls
          /\ Len(calls) <= 2
          /\ \A i \in 1..Len(calls) : calls[i].op = <<"me", "following">>[i]
    /\ \A i \in 1..Len(StartupCalls) :
          StartupCalls[i].res = "error" =>
             /\ i = Len(calls)
             /\ pc = "crashed"
             /\ ~HasNotification
             /\ ~ENABLED StreamNext
             /\ ~ENABLED FetchContext

\* C15, its case: the identity lookup answered and the follow-list lookup
\* raised
C15_Witness ==
    /\ Len(calls) = 2
    /\ calls[1].op = "me" /\ calls[1].res = "ok"
    /\ calls[2].op = "following" /\ calls[2].res = "error"
    /\ pc = "crashed"

\* C16: after an interrupt a command that was executed has been
\* acknowledged: no state after the interrupt has a pin or unpin that was done
\* and no acknowledgement reaction made.
C16_InterruptAtomic ==
    pc = "interrupted" =>
       ~ /\ \E i \in 1..Len(calls) : calls[i].op \in {"pin", "unpin"} /\ calls[i].res = "ok"
         /\ \A i \in 1..Len(calls) : calls[i].op # "react"

\* C17: every pin or unpin call is made with the id of an ancestor of the
\* fetched context that equals the in_reply_to_id of the triggering status, and
\* never with the id of the triggering status itself.
C17_TargetIsParent ==
    \A i \in 1..Len(calls) :
       calls[i].op \in {"pin", "unpin"} =>
          /\ calls[i].arg = notification.status.in_reply_to_id
          /\ \E j \in 1..Len(context.ancestors) : context.ancestors[j].id = calls[i].arg
          /\ calls[i].arg # notification.status.id
          /\ calls[i].arg # None

\* C17, its case: a pin made in a thread of two ancestors where the post
\* replied to is not the last ancestor scanned
C17_Witness ==
    /\ Len(context.ancestors) = 2
    /\ context.ancestors[1].id = notification.status.in_reply_to_id
    /\ \E i \in 1..Len(calls) :
          calls[i].op = "pin" /\ calls[i].res = "ok" /\ calls[i].arg = context.ancestors[1].id

\* an authorized command that passed the thread gate and whose in_reply_to_id
\* is the id of no ancestor
Unresolved ==
    /\ HasNotification
    /\ context.fetched
    /\ ~TooLong
    /\ IsCommand
    /\ Authorized(notification, follows)
    /\ ~Resolvable

\* C18 as stated: when an authorized command's in_reply_to_id matches no
\* ancestor, the handler goes on to call pin/unpin with an undefined target.
C18_CallsWithUndefined ==
    (Unresolved /\ Over) =>
       \E i \in 1..Len(calls) : calls[i].op \in {"pin", "unpin"} /\ calls[i].arg = None

\* C18 amended: when an authorized command's in_reply_to_id matches no
\* ancestor the target stays unresolved and reading it raises before any call:
\* no pin, unpin, react or reply call is made for the notification, the
\* handler never returns normally and ends with the error propagating out of
\* run(); a pin/unpin call is only ever attempted with a resolved target.
C18_RaisesBeforeCall ==
    /\ Unresolved =>
          /\ ActionCalls = <<>>
          /\ target = None
          /\ pc \in {"gate", "command", "crashed"}
          /\ Over => (pc = "crashed" /\ ~ENABLED Next)
    /\ pc = "pin" => target # None
    /\ \A i \in 1..Len(calls) : calls[i].op \in {"pin", "unpin"} => calls[i].arg # None

\* C18, its case: a command that is not a reply, from a followed account,
\* after process_command has raised
C18_Witness ==
    /\ Unresolved
    /\ notification.status.in_reply_to_id = None
    /\ pc = "crashed"

\* the calls of the notification in hand with an operation of ops
CallsOf(ops) == SelectSeq(calls, LAMBDA c : c.op \in ops)

\* what C19 says of every state
C19_AtMostOnce ==
    /\ Len(SelectSeq(Fetches, LAMBDA c : c.res = "ok")) <= 1
    /\ Len(CallsOf({"pin", "unpin"})) <= 1
    /\ Len(CallsOf({"make_post"})) <= 1
    /\ Len(CallsOf({"reply"})) <= 1
    /\ Len(CallsOf({"react"})) <= 1
    \* the reply path and the command path exclude each other
    /\ CallsOf({"make_post"}) # <<>> => CallsOf({"pin", "unpin", "react"}) = <<>>
    \* the pipeline runs only after the one successful fetch, which is the last
    /\ (ActionCalls # <<>> \/ CallsOf({"make_post"}) # <<>> \/ pc \in {"gate", "command", "pin", "react_ok", "ack", "reply"}) =>
          /\ context.fetched
          /\ FetchCalls[Len(FetchCalls)].res = "ok"
    /\ context.fetched => pc \notin {"fetch", "sleep"}

\* what C19 says of every step
C19_Step ==
    \* the thread gate is entered from the successful fetch only
    /\ (pc' = "gate" /\ pc # "gate") => (pc = "fetch" /\ ~context.fetched)
    \* the paths are entered from the thread gate only
    /\ (pc' \in {"command", "reply"} /\ pc' # pc) => pc = "gate"
    /\ pc \in {"command", "reply", "pin", "react_ok", "ack"} => pc' # "gate"
    \* a returning frame, the frames that retried included, does nothing more
    /\ pc = "return" =>
          /\ calls' = calls
          /\ pc' \in {"return", "stream"}
          /\ depth' <= depth
          /\ <<context', target', tasks', retry_count'>> = <<context, target, tasks, retry_count>>

\* C19: whatever the pattern of transient fetch failures, a notification
\* causes at most one thread-gate evaluation and at most one of the reply path
\* and the command path, hence at most one reply call on the reply path and at
\* most one pin/unpin call on the command path; after a recursive retry
\* returns the outer invocation performs no further action.
C19_PipelineOnce == []C19_AtMostOnce /\ [][C19_Step]_vars

\* C19, its case: two transient failures, the third fetch succeeded, one
\* reply made in the innermost frame and all three frames returned
C19_Witness ==
    /\ Handled
    /\ depth = 0
    /\ Shape(FetchCalls) = FullSchedule
    /\ context.fetched
    /\ Len(CallsOf({"reply"})) = 1
    /\ CallsOf({"reply"})[1].res = "ok"
    /\ PostMade

====
